---- MODULE Spec2Model ----
(***************************************************************************)
(* aiofreqlimit: GCRA rate limiter.                                        *)
(*                                                                         *)
(* The model covers the pure GCRA step (gcra.py), the limit parameters     *)
(* (params.py), the in-process backend (backends/memory.py): its three     *)
(* dictionaries, the per-key asyncio.Lock, inline idle eviction, the       *)
(* periodic sweeper task and clear(), the limiter (limiter.py) over that   *)
(* backend, and the Redis backend with its script (backends/redis.py).     *)
(*                                                                         *)
(* Time is counted in integer ticks; period is chosen as a multiple of     *)
(* limit so that interval = period / limit is exact.  An optional value    *)
(* (Python's None or a value v) is the empty tuple or the 1-tuple <<v>>.   *)
(* A dict is a function whose DOMAIN is the set of its keys.               *)
(*                                                                         *)
(* Scheduling is asyncio's: one task runs at a time and is only suspended  *)
(* at an await that really blocks, so every action below is the code a     *)
(* task runs between two suspensions.                                      *)
(***************************************************************************)
EXTENDS Integers, Sequences, FiniteSets, TLC

VARIABLES
    params,             \* the FreqLimitParams every reserve call is given
    idle_ttl,           \* InMemoryBackend._idle_ttl
    sweeper_interval,   \* InMemoryBackend._sweeper_interval
    clock,              \* loop.time()
    tat,                \* InMemoryBackend._tat
    last_seen,          \* InMemoryBackend._last_seen
    locks,              \* InMemoryBackend._locks: key -> lock object
    locked,             \* the lock objects whose _locked flag is set
    waiters,            \* lock object -> its _waiters queue (tasks, FIFO)
    woken,              \* the waiting tasks whose future has a result
    task,               \* per reserver task: pc and the locals of reserve
    sweeper_task,       \* InMemoryBackend._sweeper_task
    sw,                 \* per sweeper task: its state and wake-up time
    clr,                \* the task calling clear(): pc and awaited sweeper
    hist,               \* history: per key the completed read-step-writes
    ncalls,             \* number of calls made so far (reserve, clear, acquire)
    pass,               \* history: what the latest eviction pass met and did
    step,               \* the input and output of one bare gcra_step call
    redis,              \* the Redis server: its clock, its keys, the last call,
                        \* script runs and errors raised so far
    made,               \* one construction: its arguments and its outcome
    facade,             \* FreqLimit.clear(): the backend's kind, calls made
    legacy              \* the legacy FreqLimit: lock table, cleaner, tasks

vars == <<params, idle_ttl, sweeper_interval, clock, tat, last_seen, locks,
          locked, waiters, woken, task, sweeper_task, sw, clr, hist, ncalls,
          pass, step, redis, made, facade, legacy>>

backendVars == <<params, idle_ttl, sweeper_interval, clock, tat, last_seen,
                 locks, locked, waiters, woken, task, sweeper_task, sw, clr,
                 hist, ncalls, pass>>

----------------------------------------------------------------------------
(* Bounds *)

MaxTime == 3
MaxCalls == 4

Keys == {"k1", "k2"}

\* the keys a backend is given: those above and FreqLimit's default key
AllKeys == Keys \cup {"_global"}
Tasks == {"t1", "t2"}
LockIds == {1, 2, 3}
SweeperIds == {1, 2}

None == <<>>
Some(v) == <<v>>

P1 == [limit |-> 1, period |-> 2, burst |-> 1]
P2 == [limit |-> 2, period |-> 2, burst |-> 2]
P3 == [limit |-> 1, period |-> 1, burst |-> 3]

\* the configurations explored: <<params, idle_ttl, sweeper_interval>>
ConfigSet ==
    { <<P1, None, None>>, <<P3, None, None>>,
      <<P1, Some(1), None>>, <<P2, Some(2), Some(2)>> }

----------------------------------------------------------------------------
(* params.py *)

Interval(p) == p.period \div p.limit

Tau(p) == Interval(p) * (p.burst - 1)

----------------------------------------------------------------------------
(* limiter.py: the pacing decision of FreqLimit.resource *)

\* variant: never sleeps
ShouldSleepNever(delay) == FALSE

\* if delay > 0: await asyncio.sleep(delay)
ShouldSleep(delay) == delay > 0

----------------------------------------------------------------------------
(* gcra.py *)

\* variants of gcra_step with one slip each, for checking that the properties
\* below depend on the step

gcra_step_delay_after_move(now, tat_in, p) ==
    LET tat0 == IF tat_in = None THEN now ELSE tat_in[1]
        allowed_time == tat0 - Tau(p)
        early == now < allowed_time
        effective_now == IF early THEN allowed_time ELSE now
    IN  [new_tat |-> IF effective_now >= tat0
                     THEN effective_now + Interval(p)
                     ELSE tat0 + Interval(p),
         delay |-> IF early THEN allowed_time - effective_now ELSE 0]

gcra_step_always_reanchor(now, tat_in, p) ==
    LET tat0 == IF tat_in = None THEN now ELSE tat_in[1]
        allowed_time == tat0 - Tau(p)
        early == now < allowed_time
        effective_now == IF early THEN allowed_time ELSE now
    IN  [new_tat |-> effective_now + Interval(p),
         delay |-> IF early THEN allowed_time - now ELSE 0]

gcra_step_signed_delay(now, tat_in, p) ==
    LET tat0 == IF tat_in = None THEN now ELSE tat_in[1]
        allowed_time == tat0 - Tau(p)
        effective_now == allowed_time
    IN  [new_tat |-> IF effective_now >= tat0
                     THEN effective_now + Interval(p)
                     ELSE tat0 + Interval(p),
         delay |-> allowed_time - now]

gcra_step_reanchor_in_window(now, tat_in, p) ==
    LET tat0 == IF tat_in = None THEN now ELSE tat_in[1]
        allowed_time == tat0 - Tau(p)
        early == now < allowed_time
    IN  [new_tat |-> IF early THEN tat0 + Interval(p) ELSE now + Interval(p),
         delay |-> IF early THEN allowed_time - now ELSE 0]

gcra_step_never_reanchor(now, tat_in, p) ==
    LET tat0 == IF tat_in = None THEN now ELSE tat_in[1]
        allowed_time == tat0 - Tau(p)
        early == now < allowed_time
    IN  [new_tat |-> tat0 + Interval(p),
         delay |-> IF early THEN allowed_time - now ELSE 0]

gcra_step(now, tat_in, p) ==
    LET tat0 == IF tat_in = None THEN now ELSE tat_in[1]
        interval == Interval(p)
        tau == Tau(p)
        allowed_time == tat0 - tau
        early == now < allowed_time
        delay == IF early THEN allowed_time - now ELSE 0
        effective_now == IF early THEN allowed_time ELSE now
    IN  [new_tat |-> IF effective_now >= tat0
                     THEN effective_now + interval
                     ELSE tat0 + interval,
         delay |-> delay]

----------------------------------------------------------------------------
(* dict helpers *)

Get(m, k) == IF k \in DOMAIN m THEN Some(m[k]) ELSE None

Put(m, k, v) == [x \in DOMAIN m \cup {k} |-> IF x = k THEN v ELSE m[x]]

PopAll(m, ks) == [x \in DOMAIN m \ ks |-> m[x]]

EmptyDict == [x \in {} |-> 0]

----------------------------------------------------------------------------
(* asyncio.Lock as memory.py uses it *)

\* Lock.locked()
IsLocked(l) == l \in locked

\* w.cancelled(): the waiter's task was cancelled before its future got a
\* result, and has not run since
FutCancelled(t) == task[t].pc = "cancelling" /\ t \notin woken

\* the test of Lock.acquire's fast path: free, and nobody queued but
\* cancelled waiters
CanAcquireNow(l) ==
    /\ l \notin locked
    /\ \A i \in 1..Len(waiters[l]) : FutCancelled(waiters[l][i])

\* Lock._wake_up_first on queue q: the tasks whose future gets a result; a
\* first future that is done already is left alone
WakeUpFirst(q) == IF q = <<>> \/ FutCancelled(Head(q)) THEN {} ELSE {Head(q)}

\* asyncio.Lock(): a fresh object
NewLock(inUse) == CHOOSE l \in LockIds \ inUse : \A m \in LockIds \ inUse : l <= m

----------------------------------------------------------------------------
(* InMemoryBackend._cleanup_expired *)

ExpiredLate(k, now, ttl) == last_seen[k] < now - ttl

ExpiredEarly(k, now, ttl) == ~(last_seen[k] > now)

Expired(k, now, ttl) == ~(last_seen[k] > now - ttl)

KeyLockedNever(k) == FALSE

KeyLocked(k) == k \in DOMAIN locks /\ IsLocked(locks[k])

PopLocksKept(m, ks) == m

\* self._locks.pop(key, None), for each key a pass removes
PopLocks(m, ks) == PopAll(m, ks)

\* the keys one pass at time now removes from the three dicts
CleanupExpired(now) ==
    IF idle_ttl = None THEN {}
    ELSE {k \in DOMAIN tat :
            /\ k \in DOMAIN last_seen
            /\ Expired(k, now, idle_ttl[1])
            /\ ~KeyLocked(k)}

\* the expired keys one pass at time now leaves alone because their lock is held
SkippedLocked(now) ==
    IF idle_ttl = None THEN {}
    ELSE {k \in DOMAIN tat :
            /\ k \in DOMAIN last_seen
            /\ Expired(k, now, idle_ttl[1])
            /\ KeyLocked(k)}

NoPass == [now |-> 0, removed |-> EmptyDict, skipped |-> {}]

\* history of one pass: its time, the keys it removes with the last_seen each
\* had, and the keys it skips as locked; a call without idle_ttl makes no pass
PassRecord(now) ==
    IF idle_ttl = None THEN pass
    ELSE [now |-> now,
          removed |-> [k \in CleanupExpired(now) |-> last_seen[k]],
          skipped |-> SkippedLocked(now)]

----------------------------------------------------------------------------
(* InMemoryBackend._ensure_sweeper *)

SweeperDone(s) == sw[s].state = "done"

NeedSweeper ==
    /\ sweeper_interval # None
    /\ ~(sweeper_task # None /\ ~SweeperDone(sweeper_task[1]))

\* task objects nothing refers to any more can be told apart from no others
FreeSweeperIds ==
    {s \in SweeperIds :
        /\ sw[s].state \in {"none", "done"}
        /\ sweeper_task # Some(s)
        /\ clr.await # Some(s)}

NewSweeper == CHOOSE s \in FreeSweeperIds : \A r \in FreeSweeperIds : s <= r

----------------------------------------------------------------------------
(* Initial state: InMemoryBackend.__init__ *)

\* a task outside any call; the fields after lock belong to a task that came
\* through FreqLimit.resource: the key argument it gave, the delay reserve
\* returned, when its sleep ends, when it entered the region and how its last
\* use ended
IdleTask == [pc |-> "idle", key |-> "k1", now |-> 0, lock |-> 1,
             caller |-> "backend", arg |-> None, delay |-> 0, wake |-> 0,
             entered |-> 0, outcome |-> "none"]

NoSweeper == [state |-> "none", wake |-> 0]

IdleClear == [pc |-> "idle", await |-> None]

\* no Redis server in use
NoRedis == [time |-> 0, db |-> EmptyDict, prefix |-> <<>>, extra_ttl |-> 0,
            last |-> None, runs |-> 0, raised |-> 0]

NoMade == [class |-> "none", args |-> <<>>, done |-> FALSE, raised |-> FALSE,
           interval |-> None, tau |-> None]

NoFacade == [has_clear |-> TRUE, pc |-> "idle", calls |-> 0, clears |-> 0,
             raised |-> 0]

IdleLegacyTask == [pc |-> "idle", key |-> "k1", wake |-> 0]

NoLegacy == [interval |-> 1, clean_interval |-> 1, locks |-> EmptyDict,
             clean_event |-> FALSE, clean_task |-> [pc |-> "none", wake |-> 0],
             task |-> [t \in Tasks |-> IdleLegacyTask], made_locks |-> 0,
             entered |-> [k \in Keys |-> <<>>]]

NoStep == [now |-> 0, tat |-> None, params |-> [limit |-> 1, period |-> 1, burst |-> 1],
           new_tat |-> 0, delay |-> 0, done |-> FALSE]

BackendInit ==
    /\ clock = 0
    /\ tat = EmptyDict
    /\ last_seen = EmptyDict
    /\ locks = EmptyDict
    /\ locked = {}
    /\ waiters = [l \in LockIds |-> <<>>]
    /\ woken = {}
    /\ task = [t \in Tasks |-> IdleTask]
    /\ sweeper_task = None
    /\ sw = [s \in SweeperIds |-> NoSweeper]
    /\ clr = IdleClear
    /\ hist = [k \in AllKeys |-> <<>>]
    /\ ncalls = 0
    /\ pass = NoPass

Init ==
    /\ \E c \in ConfigSet :
        /\ params = c[1]
        /\ idle_ttl = c[2]
        /\ sweeper_interval = c[3]
    /\ BackendInit
    /\ made = NoMade
    /\ facade = NoFacade
    /\ legacy = NoLegacy
    /\ step = NoStep
    /\ redis = NoRedis

----------------------------------------------------------------------------
(* InMemoryBackend.reserve *)

StoreTatSetDefault(m, k, v) == IF k \in DOMAIN m THEN m ELSE Put(m, k, v)

\* self._tat[key] = new_tat
StoreTat(m, k, v) == Put(m, k, v)

\* one completed read-step-write, as the history keeps it
Entry(now, read, r, waited) ==
    [now |-> now, read |-> read, tat |-> r.new_tat, delay |-> r.delay,
     waited |-> waited]

\* loop.create_task(self._sweep_periodically(interval)), when needed; the
\* new task reaches its first asyncio.sleep(interval) before the clock moves
EnsureSweeper ==
    IF NeedSweeper
    THEN /\ FreeSweeperIds # {}
         /\ sweeper_task' = Some(NewSweeper)
         /\ sw' = [sw EXCEPT ![NewSweeper] =
                        [state |-> "sleeping", wake |-> clock + sweeper_interval[1]]]
    ELSE UNCHANGED <<sweeper_task, sw>>

\* variant: the lock stays taken after the call
ReleaseOnExitKeepsLock(held, lock) == held

\* async with lock: __aexit__ releases the lock before reserve returns
ReleaseOnExit(held, lock) == held \ {lock}

\* what the caller of reserve does with the delay up to its next suspension:
\* a direct caller is done; FreqLimit.resource sleeps when delay > 0 and
\* yields to the region otherwise
Returned(t, caller, arg, k, now, delay) ==
    IF caller = "backend" THEN IdleTask
    ELSE IF ShouldSleep(delay)
    THEN [IdleTask EXCEPT !.pc = "sleeping", !.key = k, !.now = now,
                          !.caller = caller, !.arg = arg, !.delay = delay,
                          !.wake = clock + delay]
    ELSE [IdleTask EXCEPT !.pc = "region", !.key = k, !.now = now,
                          !.caller = caller, !.arg = arg, !.delay = delay,
                          !.entered = clock]

\* reserve from its call to its return, or to the await of a lock that is
\* taken; the lock is free again when the call returns
Reserve(t, k, caller, arg) ==
    /\ task[t].pc = "idle"
    /\ ncalls < MaxCalls
    /\ ncalls' = ncalls + 1
    /\ LET now == clock
           gone == CleanupExpired(now)
           tat1 == PopAll(tat, gone)
           locks1 == PopLocks(locks, gone)
           seen1 == PopAll(last_seen, gone)
           inUse == {locks1[x] : x \in DOMAIN locks1} \cup locked
                        \cup {l \in LockIds : waiters[l] # <<>>}
           known == k \in DOMAIN locks1
       IN  /\ known \/ LockIds \ inUse # {}
           /\ pass' = PassRecord(now)
           /\ EnsureSweeper
           /\ LET lock == IF known THEN locks1[k] ELSE NewLock(inUse)
                  read == Get(tat1, k)
                  r == gcra_step(now, read, params)
              IN  /\ locks' = Put(locks1, k, lock)
                  /\ IF CanAcquireNow(lock)
                     THEN /\ tat' = StoreTat(tat1, k, r.new_tat)
                          /\ last_seen' = Put(seen1, k, now)
                          /\ hist' = [hist EXCEPT ![k] = Append(@, Entry(now, read, r, FALSE))]
                          /\ locked' = ReleaseOnExit(locked \cup {lock}, lock)
                          /\ task' = [task EXCEPT ![t] =
                                        Returned(t, caller, arg, k, now, r.delay)]
                          /\ UNCHANGED waiters
                     ELSE /\ tat' = tat1
                          /\ last_seen' = seen1
                          /\ waiters' = [waiters EXCEPT ![lock] = Append(@, t)]
                          /\ task' = [task EXCEPT ![t] =
                                        [IdleTask EXCEPT !.pc = "waiting", !.key = k,
                                                         !.now = now, !.lock = lock,
                                                         !.caller = caller, !.arg = arg]]
                          /\ UNCHANGED <<hist, locked>>
    /\ UNCHANGED <<params, idle_ttl, sweeper_interval, clock, woken, clr, step, redis, made, facade, legacy>>

\* backend.reserve(key, now, params) called directly
ReserveCall(t, k) == Reserve(t, k, "backend", None)

\* a reserve that waited for its lock: woken by release, it takes the lock,
\* does the read-step-write, releases and returns
ReserveResume(t) ==
    /\ task[t].pc = "waiting"
    /\ t \in woken
    /\ LET k == task[t].key
           now == task[t].now
           lock == task[t].lock
           rest == SelectSeq(waiters[lock], LAMBDA x : x # t)
           read == Get(tat, k)
           r == gcra_step(now, read, params)
       IN  /\ waiters' = [waiters EXCEPT ![lock] = rest]
           /\ tat' = StoreTat(tat, k, r.new_tat)
           /\ last_seen' = Put(last_seen, k, now)
           /\ hist' = [hist EXCEPT ![k] = Append(@, Entry(now, read, r, TRUE))]
           /\ woken' = (woken \ {t}) \cup WakeUpFirst(rest)
           /\ locked' = ReleaseOnExit(locked \cup {lock}, lock)
           /\ task' = [task EXCEPT ![t] =
                         Returned(t, task[t].caller, task[t].arg, k, now, r.delay)]
    /\ UNCHANGED <<params, idle_ttl, sweeper_interval, clock, locks,
                   sweeper_task, sw, clr, ncalls, pass, step, redis, made, facade, legacy>>

----------------------------------------------------------------------------
(* Code outside the backend holding a key's lock, as the test of           *)
(* _cleanup_expired does                                                    *)

LockAcquire(k) ==
    /\ k \in DOMAIN locks
    /\ locked = {}
    /\ CanAcquireNow(locks[k])
    /\ ncalls < MaxCalls
    /\ ncalls' = ncalls + 1
    /\ locked' = {locks[k]}
    /\ UNCHANGED <<params, idle_ttl, sweeper_interval, clock, tat, last_seen,
                   locks, waiters, woken, task, sweeper_task, sw, clr, hist,
                   pass, step, redis, made, facade, legacy>>

LockRelease(l) ==
    /\ l \in locked
    /\ locked' = locked \ {l}
    /\ woken' = woken \cup WakeUpFirst(waiters[l])
    /\ UNCHANGED <<params, idle_ttl, sweeper_interval, clock, tat, last_seen,
                   locks, waiters, task, sweeper_task, sw, clr, hist, ncalls,
                   pass, step, redis, made, facade, legacy>>

----------------------------------------------------------------------------
(* The clock *)

Tick ==
    /\ clock < MaxTime
    /\ clock' = clock + 1
    /\ UNCHANGED <<params, idle_ttl, sweeper_interval, tat, last_seen, locks,
                   locked, waiters, woken, task, sweeper_task, sw, clr, hist,
                   ncalls, pass, step, redis, made, facade, legacy>>

----------------------------------------------------------------------------
(* InMemoryBackend._sweep_periodically *)

\* the sleep is over: one pass, then the next sleep
SweepRun(s) ==
    /\ sw[s].state = "sleeping"
    /\ clock >= sw[s].wake
    /\ LET gone == CleanupExpired(clock)
       IN  /\ tat' = PopAll(tat, gone)
           /\ locks' = PopLocks(locks, gone)
           /\ last_seen' = PopAll(last_seen, gone)
           /\ pass' = PassRecord(clock)
    /\ sw' = [sw EXCEPT ![s].wake = clock + sweeper_interval[1]]
    /\ UNCHANGED <<params, idle_ttl, sweeper_interval, clock, locked, waiters,
                   woken, task, sweeper_task, clr, hist, ncalls, step, redis, made, facade, legacy>>

\* CancelledError is thrown into the task at its next step and ends it
SweeperCancelled(s) ==
    /\ sw[s].state = "cancelling"
    /\ sw' = [sw EXCEPT ![s] = [state |-> "done", wake |-> 0]]
    /\ UNCHANGED <<params, idle_ttl, sweeper_interval, clock, tat, last_seen,
                   locks, locked, waiters, woken, task, sweeper_task, clr,
                   hist, ncalls, pass, step, redis, made, facade, legacy>>

----------------------------------------------------------------------------
(* InMemoryBackend.clear *)

\* clear from its call to its return, or to the await of a sweeper that has
\* not ended yet
BackendClear ==
    /\ clr.pc = "idle"
    /\ ncalls < MaxCalls
    /\ ncalls' = ncalls + 1
    /\ tat' = EmptyDict
    /\ locks' = EmptyDict
    /\ last_seen' = EmptyDict
    /\ hist' = [k \in AllKeys |-> <<>>]
    /\ IF sweeper_task = None
       THEN UNCHANGED <<sweeper_task, sw, clr>>
       ELSE IF SweeperDone(sweeper_task[1])
       THEN /\ sweeper_task' = None
            /\ UNCHANGED <<sw, clr>>
       ELSE /\ sw' = [sw EXCEPT ![sweeper_task[1]] = [state |-> "cancelling", wake |-> 0]]
            /\ clr' = [pc |-> "awaiting", await |-> sweeper_task]
            /\ UNCHANGED sweeper_task
    /\ UNCHANGED <<params, idle_ttl, sweeper_interval, clock, locked, waiters,
                   woken, task, pass, step, redis, made, legacy>>

\* clear called on the backend itself
ClearCall ==
    /\ BackendClear
    /\ UNCHANGED facade

\* the awaited sweeper has ended: self._sweeper_task = None
BackendClearResume ==
    /\ clr.pc = "awaiting"
    /\ SweeperDone(clr.await[1])
    /\ sweeper_task' = None
    /\ clr' = [clr EXCEPT !.pc = "idle", !.await = None]
    /\ UNCHANGED <<params, idle_ttl, sweeper_interval, clock, tat, last_seen,
                   locks, locked, waiters, woken, task, sw, hist, ncalls,
                   pass, step, redis, made, legacy>>

ClearResume ==
    /\ BackendClearResume
    /\ UNCHANGED facade

----------------------------------------------------------------------------
(* The backend under concurrent callers *)

Next ==
    \/ \E t \in Tasks, k \in Keys : ReserveCall(t, k)
    \/ \E t \in Tasks : ReserveResume(t)
    \/ \E k \in Keys : LockAcquire(k)
    \/ \E l \in LockIds : LockRelease(l)
    \/ Tick
    \/ \E s \in SweeperIds : SweepRun(s)
    \/ \E s \in SweeperIds : SweeperCancelled(s)
    \/ ClearCall
    \/ ClearResume

Spec == Init /\ [][Next]_vars

----------------------------------------------------------------------------
(* gcra_step on its own: every input within the bounds *)

MaxStepTime == 6
MaxLimit == 2
MaxPeriodFactor == 2
MaxBurst == 3

\* FreqLimitParams.__post_init__ accepts exactly the positive inputs
ValidParams(p) == p.limit > 0 /\ p.period > 0 /\ p.burst > 0

StepParamSet ==
    {p \in [limit : 1..MaxLimit, period : 1..(MaxLimit * MaxPeriodFactor),
            burst : 1..MaxBurst] :
        ValidParams(p) /\ p.period % p.limit = 0}

StepInit ==
    /\ params = P1
    /\ idle_ttl = None
    /\ sweeper_interval = None
    /\ BackendInit
    /\ made = NoMade
    /\ facade = NoFacade
    /\ legacy = NoLegacy
    /\ step = NoStep
    /\ redis = NoRedis

GcraStepCall ==
    /\ ~step.done
    /\ \E now \in 0..MaxStepTime, t \in {None} \cup {Some(x) : x \in 0..MaxStepTime},
          p \in StepParamSet :
            LET r == gcra_step(now, t, p)
            IN  step' = [now |-> now, tat |-> t, params |-> p,
                         new_tat |-> r.new_tat, delay |-> r.delay, done |-> TRUE]
    /\ UNCHANGED <<backendVars, redis, made, facade, legacy>>

StepNext == GcraStepCall

StepSpec == StepInit /\ [][StepNext]_vars

----------------------------------------------------------------------------
(* limiter.py: FreqLimit over the in-process backend *)

\* the key arguments callers give to resource(): none, or a key
KeyArgs == {None, Some("k1")}

\* variant: the key argument is dropped
ResourceKeyAlwaysGlobal(key) == "_global"

\* if key is None: key = "_global"
ResourceKey(key) == IF key = None THEN "_global" ELSE key[1]

\* variant: the slot of an abandoned use is given back
AbandonRefund(m, k) == IF k \in DOMAIN m THEN Put(m, k, m[k] - Interval(params)) ELSE m

\* an exception leaving resource() at the sleep or at the yield meets no
\* except or finally clause: the backend is not called again
Abandon(m, k) == m

\* a task whose use of resource(key) has ended with an exception, and which
Ended(k, outcome) == [IdleTask EXCEPT !.key = k, !.outcome = outcome]

LimiterInit ==
    /\ params \in {P1, P2}
    /\ idle_ttl = None
    /\ sweeper_interval = None
    /\ BackendInit
    /\ made = NoMade
    /\ facade = NoFacade
    /\ legacy = NoLegacy
    /\ step = NoStep
    /\ redis = NoRedis

\* resource(key) from its call to the sleep, or to the yield when there is
\* no delay
ResourceCall(t, key) == Reserve(t, ResourceKey(key), "limiter", key)

\* asyncio.sleep(delay) is over: yield
SleepDone(t) ==
    /\ task[t].pc = "sleeping"
    /\ clock >= task[t].wake
    /\ task' = [task EXCEPT ![t].pc = "region", ![t].entered = clock]
    /\ UNCHANGED <<params, idle_ttl, sweeper_interval, clock, tat, last_seen,
                   locks, locked, waiters, woken, sweeper_task, sw, clr, hist,
                   ncalls, pass, step, redis, made, facade, legacy>>

\* the task is cancelled while it sleeps
SleepCancelled(t) ==
    /\ task[t].pc = "sleeping"
    /\ tat' = Abandon(tat, task[t].key)
    /\ task' = [task EXCEPT ![t] = Ended(task[t].key, "cancelled")]
    /\ UNCHANGED <<params, idle_ttl, sweeper_interval, clock, last_seen,
                   locks, locked, waiters, woken, sweeper_task, sw, clr, hist,
                   ncalls, pass, step, redis, made, facade, legacy>>

\* the body of the async with block ends normally
RegionExit(t) ==
    /\ task[t].pc = "region"
    /\ task' = [task EXCEPT ![t] = IdleTask]
    /\ UNCHANGED <<params, idle_ttl, sweeper_interval, clock, tat, last_seen,
                   locks, locked, waiters, woken, sweeper_task, sw, clr, hist,
                   ncalls, pass, step, redis, made, facade, legacy>>

\* the body of the async with block raises
RegionError(t) ==
    /\ task[t].pc = "region"
    /\ tat' = Abandon(tat, task[t].key)
    /\ task' = [task EXCEPT ![t] = Ended(task[t].key, "failed")]
    /\ UNCHANGED <<params, idle_ttl, sweeper_interval, clock, last_seen,
                   locks, locked, waiters, woken, sweeper_task, sw, clr, hist,
                   ncalls, pass, step, redis, made, facade, legacy>>

LimiterNext ==
    \/ \E t \in Tasks, key \in KeyArgs : ResourceCall(t, key)
    \/ \E t \in Tasks : SleepDone(t)
    \/ \E t \in Tasks : SleepCancelled(t)
    \/ \E t \in Tasks : RegionExit(t)
    \/ \E t \in Tasks : RegionError(t)
    \/ Tick

LimiterSpec == LimiterInit /\ [][LimiterNext]_vars

----------------------------------------------------------------------------
(* backends/redis.py: RedisBackend and the script it runs on the server *)

\* Redis time is counted in ticks too, TicksPerSecond of them to the second,
\* so that TTLs, which Redis takes in whole seconds, are rounded.  A string
\* is the sequence of its characters.  Numbers within the range of the model
\* are printed and parsed without loss.
TicksPerSecond == 2

\* Python values given as keys
PyNone == [type |-> "NoneType", val |-> <<>>]
PyStr(s) == [type |-> "str", val |-> s]

NoneText == <<"N", "o", "n", "e">>

RedisKeyArgs == {PyNone, PyStr(NoneText), PyStr(<<"k">>)}

\* the prefix the backend is built with
Prefix == <<"p", ":">>

\* extra_ttl values the backend is built with
ExtraTtls == {0, 1, 2}

RP1 == [limit |-> 1, period |-> 1, burst |-> 1]
RP2 == [limit |-> 1, period |-> 3, burst |-> 2]

RedisParamSet == {RP1, RP2}

\* str(key), as an f-string formats it
Format(v) == IF v.type = "NoneType" THEN NoneText ELSE v.val

\* redis_key = f"{self._prefix}{key}"
RedisKey(prefix, key) == prefix \o Format(key)

\* variant: rounded down
CeilSecondsFloor(ttl) == ttl \div TicksPerSecond

\* math.ceil(ttl): ttl in ticks, the result in whole seconds
CeilSeconds(ttl) == (ttl + TicksPerSecond - 1) \div TicksPerSecond

\* GET: the value of a key that exists and has not expired
RedisGet(db, time, k) ==
    IF k \in DOMAIN db /\ time < db[k].expire THEN Some(db[k].val) ELSE None

\* SET key value EX seconds
RedisSetEx(db, time, k, v, seconds) ==
    Put(db, k, [val |-> v, expire |-> time + seconds * TicksPerSecond])

\* the keys Redis has dropped as expired by the given time
Unexpired(db, time) == [k \in {x \in DOMAIN db : time < db[x].expire} |-> db[k]]

\* variant: the delay counted from the TAT, not from TAT - tau
GCRA_LUA_delay_from_tat(now, tat_str, interval, tau, extra_ttl) ==
    LET tat0 == IF tat_str = None THEN now ELSE tat_str[1]
        allowed_time == tat0 - tau
        early == now < allowed_time
        delay == IF early THEN tat0 - now ELSE 0
        effective_now == IF early THEN allowed_time ELSE now
        tat1 == IF effective_now >= tat0
                THEN effective_now + interval
                ELSE tat0 + interval
        ttl0 == (tat1 - now) + extra_ttl
        ttl == IF ttl0 < TicksPerSecond THEN TicksPerSecond ELSE ttl0
    IN  [tat |-> tat1, ex |-> CeilSeconds(ttl), delay |-> delay]

\* the script: now is the server's TIME, tat_str the result of GET
GCRA_LUA(now, tat_str, interval, tau, extra_ttl) ==
    LET tat0 == IF tat_str = None THEN now ELSE tat_str[1]
        allowed_time == tat0 - tau
        early == now < allowed_time
        delay == IF early THEN allowed_time - now ELSE 0
        effective_now == IF early THEN allowed_time ELSE now
        tat1 == IF effective_now >= tat0
                THEN effective_now + interval
                ELSE tat0 + interval
        ttl0 == (tat1 - now) + extra_ttl
        ttl == IF ttl0 < TicksPerSecond THEN TicksPerSecond ELSE ttl0
    IN  [tat |-> tat1, ex |-> CeilSeconds(ttl), delay |-> delay]

\* history of one script run: the key argument and the now argument of
\* reserve, the server time, what GET gave, the params and extra_ttl used,
\* and what the script stored and returned
ScriptRun(key, arg_now, now, read, p, extra_ttl, r) ==
    [key |-> key, arg_now |-> arg_now, now |-> now, read |-> read,
     params |-> p, extra_ttl |-> extra_ttl,
     tat |-> r.tat, ex |-> r.ex, delay |-> r.delay]

RedisInit ==
    /\ params \in RedisParamSet
    /\ idle_ttl = None
    /\ sweeper_interval = None
    /\ BackendInit
    /\ made = NoMade
    /\ facade = NoFacade
    /\ legacy = NoLegacy
    /\ step = NoStep
    /\ \E x \in ExtraTtls : redis = [NoRedis EXCEPT !.prefix = Prefix, !.extra_ttl = x]

\* variant: the script is given the caller's now
ScriptNowFromCaller(time, now) == now

\* _ = now: the script takes the time from the server's TIME
ScriptNow(time, now) == time

\* the server and the backend after reserve(key, now, params) whose script
\* ran to its end
AfterReserve(key, now) ==
    LET redis_key == RedisKey(redis.prefix, key)
        time == ScriptNow(redis.time, now)
        read == RedisGet(redis.db, redis.time, redis_key)
        r == GCRA_LUA(time, read, Interval(params), Tau(params), redis.extra_ttl)
    IN  [redis EXCEPT
            !.db = RedisSetEx(redis.db, redis.time, redis_key, r.tat, r.ex),
            !.last = Some(ScriptRun(key, now, time, read, params,
                                    redis.extra_ttl, r)),
            !.runs = redis.runs + 1]

\* variant: the error is swallowed and the script run again
AfterFailedReserveRetry(key, now) ==
    [AfterReserve(key, now) EXCEPT !.runs = redis.runs + 2]

\* the server and the backend after reserve(key, now, params) whose script
\* call raised: the script ended before its SET, which is its last command,
\* and reserve has no except clause
AfterFailedReserve(key, now) ==
    [redis EXCEPT !.runs = redis.runs + 1, !.raised = redis.raised + 1]

\* RedisBackend.reserve: one run of the script, atomic on the server
RedisReserve(key) ==
    /\ ncalls < MaxCalls
    /\ ncalls' = ncalls + 1
    /\ \E now \in {0, MaxTime} : redis' = AfterReserve(key, now)
    /\ UNCHANGED <<params, idle_ttl, sweeper_interval, clock, tat, last_seen,
                   locks, locked, waiters, woken, task, sweeper_task, sw, clr,
                   hist, pass, step, made, facade, legacy>>

\* RedisBackend.reserve whose script call raises
RedisReserveFails(key) ==
    /\ ncalls < MaxCalls
    /\ ncalls' = ncalls + 1
    /\ \E now \in {0, MaxTime} : redis' = AfterFailedReserve(key, now)
    /\ UNCHANGED <<params, idle_ttl, sweeper_interval, clock, tat, last_seen,
                   locks, locked, waiters, woken, task, sweeper_task, sw, clr,
                   hist, pass, step, made, facade, legacy>>

\* the server's clock moves; keys whose TTL is over are gone
RedisTick ==
    /\ redis.time < MaxTime
    /\ redis' = [redis EXCEPT !.time = redis.time + 1,
                              !.db = Unexpired(redis.db, redis.time + 1)]
    /\ UNCHANGED backendVars
    /\ UNCHANGED <<step, made, facade, legacy>>

RedisNext ==
    \/ \E key \in RedisKeyArgs : RedisReserve(key)
    \/ \E key \in RedisKeyArgs : RedisReserveFails(key)
    \/ RedisTick

RedisSpec == RedisInit /\ [][RedisNext]_vars

\* the script on its own: every input within the bounds
ScriptInit ==
    /\ params = P1
    /\ idle_ttl = None
    /\ sweeper_interval = None
    /\ BackendInit
    /\ made = NoMade
    /\ facade = NoFacade
    /\ legacy = NoLegacy
    /\ step = NoStep
    /\ redis = NoRedis

ScriptEval ==
    /\ redis.last = None
    /\ \E now \in 0..MaxStepTime,
          t \in {None} \cup {Some(x) : x \in 0..MaxStepTime},
          p \in StepParamSet, x \in ExtraTtls :
        redis' = [redis EXCEPT !.last =
                    Some(ScriptRun(PyNone, 0, now, t, p, x,
                                   GCRA_LUA(now, t, Interval(p), Tau(p), x)))]
    /\ UNCHANGED backendVars
    /\ UNCHANGED <<step, made, facade, legacy>>

ScriptNext == ScriptEval

ScriptSpec == ScriptInit /\ [][ScriptNext]_vars

----------------------------------------------------------------------------
(* RedisBackend.clear *)

\* the prefixes a backend is built with: any str is accepted
Prefixes == {<<"a", ":">>, <<"a", "?">>, <<"a", "\\">>, <<>>}

\* names of keys a server may hold: one key of each such backend, and keys
\* of other users of the server
KeyNames == {q \o <<"k">> : q \in Prefixes} \cup {<<"f">>, <<"a", "b", "k">>}

\* a record stored before, still alive
StoredRecord == [val |-> 0, expire |-> TicksPerSecond]

\* SCAN ... MATCH pattern: Redis glob matching with *, ? and the escape \
RECURSIVE GlobMatch(_, _)
GlobMatch(pat, str) ==
    IF pat = <<>> THEN str = <<>>
    ELSE IF Head(pat) = "*"
    THEN GlobMatch(Tail(pat), str) \/ (str # <<>> /\ GlobMatch(pat, Tail(str)))
    ELSE IF Head(pat) = "?"
    THEN str # <<>> /\ GlobMatch(Tail(pat), Tail(str))
    ELSE IF Head(pat) = "\\" /\ Len(pat) >= 2
    THEN str # <<>> /\ Head(str) = pat[2] /\ GlobMatch(Tail(Tail(pat)), Tail(str))
    ELSE str # <<>> /\ Head(str) = Head(pat) /\ GlobMatch(Tail(pat), Tail(str))

\* pattern = f"{self._prefix}*"
ClearPattern(prefix) == prefix \o <<"*">>

\* the keys scan_iter(match=pattern) yields
ScanIter(db, pattern) == {k \in DOMAIN db : GlobMatch(pattern, k)}

RedisClearInit ==
    /\ params = P1
    /\ idle_ttl = None
    /\ sweeper_interval = None
    /\ BackendInit
    /\ made = NoMade
    /\ facade = NoFacade
    /\ legacy = NoLegacy
    /\ step = NoStep
    /\ \E q \in Prefixes, names \in SUBSET KeyNames :
          redis = [NoRedis EXCEPT !.prefix = q,
                                  !.db = [k \in names |-> StoredRecord]]

\* RedisBackend.clear: every key the scan yields is deleted
RedisClear ==
    /\ ncalls = 0
    /\ ncalls' = 1
    /\ redis' = [redis EXCEPT
                    !.db = PopAll(redis.db, ScanIter(redis.db, ClearPattern(redis.prefix)))]
    /\ UNCHANGED <<params, idle_ttl, sweeper_interval, clock, tat, last_seen,
                   locks, locked, waiters, woken, task, sweeper_task, sw, clr,
                   hist, pass, step, made, facade, legacy>>

RedisClearNext == RedisClear

RedisClearSpec == RedisClearInit /\ [][RedisClearNext]_vars


----------------------------------------------------------------------------
(* Construction: FreqLimitParams.__post_init__ and InMemoryBackend.__init__ *)

\* a quotient kept exact: period / limit need not be a whole number
Frac(num, den) == [num |-> num, den |-> den]

Positive(f) == f.den /= 0 /\ f.num * f.den > 0

NonNegative(f) == f.den /= 0 /\ f.num * f.den >= 0

\* the arguments tried: whole numbers around zero, and unset optionals
LimitArgs == (0 - MaxLimit)..MaxLimit

PeriodArgs == (0 - MaxLimit)..(MaxLimit * MaxPeriodFactor)

BurstArgs == (0 - MaxBurst)..MaxBurst

TtlArgs == {None} \cup {Some(x) : x \in (0 - MaxTime)..MaxTime}

PostInitRaisesOnNegative(limit, period, burst) ==
    limit < 0 \/ period < 0 \/ burst < 0

\* FreqLimitParams.__post_init__: the three checks that raise ValueError
PostInitRaises(limit, period, burst) ==
    limit <= 0 \/ period <= 0 \/ burst <= 0

\* FreqLimitParams.interval: period / limit
IntervalOf(limit, period) == Frac(period, limit)

\* FreqLimitParams.tau: interval * (burst - 1)
TauOf(limit, period, burst) ==
    LET i == IntervalOf(limit, period) IN Frac(i.num * (burst - 1), i.den)

\* InMemoryBackend.__init__: the two checks that raise ValueError
BackendInitRaises(ttl, sweep) ==
    \/ ttl /= None /\ ttl[1] <= 0
    \/ sweep /= None /\ sweep[1] <= 0

ConstructInit ==
    /\ params = P1
    /\ idle_ttl = None
    /\ sweeper_interval = None
    /\ BackendInit
    /\ step = NoStep
    /\ redis = NoRedis
    /\ facade = NoFacade
    /\ legacy = NoLegacy
    /\ \/ \E l \in LimitArgs, p \in PeriodArgs, b \in BurstArgs :
             made = [NoMade EXCEPT !.class = "FreqLimitParams", !.args = <<l, p, b>>]
       \/ \E ttl \in TtlArgs, sweep \in TtlArgs :
             made = [NoMade EXCEPT !.class = "InMemoryBackend", !.args = <<ttl, sweep>>]

\* FreqLimitParams(limit, period, burst), then its two derived properties
ConstructParams ==
    /\ made.class = "FreqLimitParams"
    /\ ~made.done
    /\ LET l == made.args[1]
           p == made.args[2]
           b == made.args[3]
       IN  made' = IF PostInitRaises(l, p, b)
                   THEN [made EXCEPT !.done = TRUE, !.raised = TRUE]
                   ELSE [made EXCEPT !.done = TRUE,
                                     !.interval = Some(IntervalOf(l, p)),
                                     !.tau = Some(TauOf(l, p, b))]
    /\ UNCHANGED <<backendVars, step, redis, facade, legacy>>

\* InMemoryBackend(idle_ttl=..., sweeper_interval=...)
ConstructBackend ==
    /\ made.class = "InMemoryBackend"
    /\ ~made.done
    /\ made' = [made EXCEPT !.done = TRUE,
                            !.raised = BackendInitRaises(made.args[1], made.args[2])]
    /\ UNCHANGED <<backendVars, step, redis, facade, legacy>>

ConstructNext ==
    \/ ConstructParams
    \/ ConstructBackend

ConstructSpec == ConstructInit /\ [][ConstructNext]_vars


----------------------------------------------------------------------------
(* FreqLimit.clear over a backend with or without a clear method *)

\* the backends tried: InMemoryBackend, whose clear is a coroutine function,
\* and the same state behind an object that offers reserve only
HasClear == BOOLEAN

AwaitResultNever(pc) == "idle"

\* if inspect.isawaitable(result): await result -- the caller is suspended
\* for as long as the backend's clear is
AwaitResult(pc) == IF pc = "awaiting" THEN "awaiting" ELSE "idle"

FacadeInit ==
    /\ \E c \in ConfigSet :
        /\ params = c[1]
        /\ idle_ttl = c[2]
        /\ sweeper_interval = c[3]
    /\ BackendInit
    /\ made = NoMade
    /\ legacy = NoLegacy
    /\ step = NoStep
    /\ redis = NoRedis
    /\ \E h \in HasClear : facade = [NoFacade EXCEPT !.has_clear = h]

\* FreqLimit.clear, to its return or to the point where the backend's clear
\* is suspended
LimiterClear ==
    /\ facade.pc = "idle"
    /\ IF ~facade.has_clear
       THEN /\ ncalls < MaxCalls
            /\ ncalls' = ncalls + 1
            /\ facade' = [facade EXCEPT !.calls = @ + 1]
            /\ UNCHANGED <<params, idle_ttl, sweeper_interval, clock, tat,
                           last_seen, locks, locked, waiters, woken, task,
                           sweeper_task, sw, clr, hist, pass, step, redis,
                           made, legacy>>
       ELSE /\ BackendClear
            /\ facade' = [facade EXCEPT !.calls = @ + 1,
                                        !.clears = @ + 1,
                                        !.pc = AwaitResult(clr'.pc)]

\* the backend's clear has finished: FreqLimit.clear returns
LimiterClearResume ==
    /\ facade.pc = "awaiting"
    /\ BackendClearResume
    /\ facade' = [facade EXCEPT !.pc = "idle"]

FacadeNext ==
    \/ \E t \in Tasks, k \in Keys : ReserveCall(t, k)
    \/ Tick
    \/ \E s \in SweeperIds : SweepRun(s)
    \/ \E s \in SweeperIds : SweeperCancelled(s)
    \/ LimiterClear
    \/ LimiterClearResume

FacadeSpec == FacadeInit /\ [][FacadeNext]_vars


----------------------------------------------------------------------------
(* The legacy module: aiofreqlimit/__init__.py *)

\* everything but the clock, the call counter and the legacy limiter
legacyRest == <<params, idle_ttl, sweeper_interval, tat, last_seen, locks,
                locked, waiters, woken, task, sweeper_task, sw, clr, hist,
                pass, step, redis, made, facade>>

\* FreqLimit(interval, clean_interval) as tried: clean_interval 0 is the default
LegacyConfigs == {<<2, 0>>, <<1, 2>>, <<2, 1>>}

\* self._clean_interval = clean_interval if clean_interval > 0 else interval
CleanInterval(interval, clean_interval) ==
    IF clean_interval > 0 THEN clean_interval ELSE interval

\* Lock(): ts = -inf (no entry yet), _count = 0, a free asyncio.Lock; id
\* tells one Lock object from the next
NewLegacyLock(id) ==
    [id |-> id, ts |-> None, count |-> 0, held |-> FALSE, waiters |-> <<>>]

LegacyInit ==
    /\ params = P1
    /\ idle_ttl = None
    /\ sweeper_interval = None
    /\ BackendInit
    /\ made = NoMade
    /\ facade = NoFacade
    /\ step = NoStep
    /\ redis = NoRedis
    /\ \E c \in LegacyConfigs :
          legacy = [NoLegacy EXCEPT !.interval = c[1],
                                    !.clean_interval = CleanInterval(c[1], c[2])]

\* the latest two region entries on a key
LastTwo(s) == IF Len(s) > 2 THEN Tail(s) ELSE s

\* self._locks[key].ts = self._loop.time(); yield
Entered(L, t, k) ==
    [L EXCEPT !.locks[k].ts = Some(clock),
              !.task[t] = [pc |-> "region", key |-> k, wake |-> 0],
              !.entered[k] = LastTwo(Append(@, clock))]

\* delay = self._interval - self._loop.time() + self._locks[key].ts, then
\* the sleep when delay > 0, else the entry at once; the lock is held
Paced(L, t, k) ==
    LET ts == L.locks[k].ts
        sleeps == ts /= None /\ L.interval - clock + ts[1] > 0
    IN  IF sleeps
        THEN [L EXCEPT !.task[t] = [pc |-> "sleeping", key |-> k,
                                    wake |-> clock + (L.interval - clock + ts[1])]]
        ELSE Entered(L, t, k)

\* Lock.__aexit__ (release, then _count -= 1), then the stack's callback
\* self._clean_event.set
Exited(L, t, k) ==
    [L EXCEPT !.locks[k].held = FALSE,
              !.locks[k].count = @ - 1,
              !.clean_event = TRUE,
              !.task[t] = IdleLegacyTask]

\* resource(key) from its call to its first suspension or to the yield
LegacyResource(t, k) ==
    /\ legacy.task[t].pc = "idle"
    /\ ncalls < MaxCalls
    /\ ncalls' = ncalls + 1
    /\ LET known == k \in DOMAIN legacy.locks
           lock == IF known THEN legacy.locks[k]
                   ELSE NewLegacyLock(legacy.made_locks + 1)
           free == ~lock.held /\ lock.waiters = <<>>
           L0 == [legacy EXCEPT
                    !.clean_task = IF @.pc = "none"
                                   THEN [pc |-> "ready", wake |-> 0] ELSE @,
                    !.made_locks = IF known THEN @ ELSE @ + 1,
                    !.locks = Put(@, k, [lock EXCEPT !.count = @ + 1])]
       IN  legacy' =
             IF free
             THEN Paced([L0 EXCEPT !.locks[k].held = TRUE], t, k)
             ELSE [L0 EXCEPT !.locks[k].waiters = Append(@, t),
                             !.task[t] = [pc |-> "waiting", key |-> k, wake |-> 0]]
    /\ UNCHANGED <<clock, legacyRest>>

\* the lock was released and this task is first in its queue: it takes the
\* lock and goes on to the pacing
LegacyAcquired(t) ==
    /\ legacy.task[t].pc = "waiting"
    /\ LET k == legacy.task[t].key
       IN  /\ ~legacy.locks[k].held
           /\ Head(legacy.locks[k].waiters) = t
           /\ legacy' = Paced([legacy EXCEPT !.locks[k].held = TRUE,
                                             !.locks[k].waiters = Tail(@)], t, k)
    /\ UNCHANGED <<clock, ncalls, legacyRest>>

\* the task is cancelled inside Lock.__aenter__, at the await of
\* self._lock.acquire(): __aenter__ raises, so the stack never registers
\* __aexit__ and _count stays as incremented; the callback still runs
LegacyWaitCancelled(t) ==
    /\ legacy.task[t].pc = "waiting"
    /\ LET k == legacy.task[t].key
       IN  legacy' = [legacy EXCEPT
                        !.locks[k].waiters = SelectSeq(@, LAMBDA x : x /= t),
                        !.clean_event = TRUE,
                        !.task[t] = IdleLegacyTask]
    /\ UNCHANGED <<clock, ncalls, legacyRest>>

\* the pacing sleep is over
LegacySleepDone(t) ==
    /\ legacy.task[t].pc = "sleeping"
    /\ clock >= legacy.task[t].wake
    /\ legacy' = Entered(legacy, t, legacy.task[t].key)
    /\ UNCHANGED <<clock, ncalls, legacyRest>>

\* the task is cancelled during the pacing sleep
LegacySleepCancelled(t) ==
    /\ legacy.task[t].pc = "sleeping"
    /\ legacy' = Exited(legacy, t, legacy.task[t].key)
    /\ UNCHANGED <<clock, ncalls, legacyRest>>

\* the region ends: normally, by an error or by cancellation
LegacyRegionExit(t) ==
    /\ legacy.task[t].pc = "region"
    /\ legacy' = Exited(legacy, t, legacy.task[t].key)
    /\ UNCHANGED <<clock, ncalls, legacyRest>>

\* age = now - ts >= clean_interval; a lock never entered has ts = -inf
Aged(L, k) ==
    L.locks[k].ts = None \/ clock - L.locks[k].ts[1] >= L.clean_interval

\* the for loop of _clean, then its sleep
CleanPass(L) ==
    [L EXCEPT !.locks = PopAll(@, {k \in DOMAIN L.locks :
                                     L.locks[k].count = 0 /\ Aged(L, k)}),
              !.clean_task = [pc |-> "sleeping", wake |-> clock + L.clean_interval]]

\* one turn of the loop of _clean, from where the task stands to its next
\* suspension
LegacyClean ==
    /\ \/ legacy.clean_task.pc = "ready"
       \/ legacy.clean_task.pc = "sleeping" /\ clock >= legacy.clean_task.wake
       \/ legacy.clean_task.pc = "waiting" /\ legacy.clean_event
    /\ legacy' =
         IF legacy.clean_task.pc = "waiting"
         THEN CleanPass([legacy EXCEPT !.clean_event = FALSE])
         ELSE IF DOMAIN legacy.locks = {}
         THEN IF legacy.clean_event
              THEN CleanPass([legacy EXCEPT !.clean_event = FALSE])
              ELSE [legacy EXCEPT !.clean_task = [pc |-> "waiting", wake |-> 0]]
         ELSE CleanPass(legacy)
    /\ UNCHANGED <<clock, ncalls, legacyRest>>

LegacyNext ==
    \/ \E t \in Tasks, k \in Keys : LegacyResource(t, k)
    \/ \E t \in Tasks : LegacyAcquired(t)
    \/ \E t \in Tasks : LegacyWaitCancelled(t)
    \/ \E t \in Tasks : LegacySleepDone(t)
    \/ \E t \in Tasks : LegacySleepCancelled(t)
    \/ \E t \in Tasks : LegacyRegionExit(t)
    \/ LegacyClean
    \/ Tick

LegacySpec == LegacyInit /\ [][LegacyNext]_vars


----------------------------------------------------------------------------
(* The backend with reservers that may be cancelled, under fair scheduling *)

CancelWakesNobody(held, q) == {}

\* Lock.acquire, except CancelledError: if not self._locked:
\* self._wake_up_first()
CancelWakes(held, q) == IF held THEN {} ELSE WakeUpFirst(q)

\* task.cancel() on a reserve waiting at async with lock: the future is
\* cancelled, or the task is marked when the future has its result already
ReserveCancel(t) ==
    /\ task[t].pc = "waiting"
    /\ task' = [task EXCEPT ![t].pc = "cancelling"]
    /\ UNCHANGED <<params, idle_ttl, sweeper_interval, clock, tat, last_seen,
                   locks, locked, waiters, woken, sweeper_task, sw, clr, hist,
                   ncalls, pass, step, redis, made, facade, legacy>>

\* the cancelled task runs: Lock.acquire removes its future from the queue
\* and wakes the next waiter when the lock is free; CancelledError leaves
\* reserve
ReserveCancelled(t) ==
    /\ task[t].pc = "cancelling"
    /\ LET lock == task[t].lock
           rest == SelectSeq(waiters[lock], LAMBDA x : x # t)
       IN  /\ waiters' = [waiters EXCEPT ![lock] = rest]
           /\ woken' = (woken \ {t}) \cup CancelWakes(lock \in locked, rest)
    /\ task' = [task EXCEPT ![t] = [IdleTask EXCEPT !.outcome = "cancelled"]]
    /\ UNCHANGED <<params, idle_ttl, sweeper_interval, clock, tat, last_seen,
                   locks, locked, sweeper_task, sw, clr, hist, ncalls, pass,
                   step, redis, made, facade, legacy>>

\* a backend with eviction: the passes are those reserve makes inline
FairInit ==
    /\ params = P1
    /\ idle_ttl = Some(1)
    /\ sweeper_interval = None
    /\ BackendInit
    /\ made = NoMade
    /\ facade = NoFacade
    /\ legacy = NoLegacy
    /\ step = NoStep
    /\ redis = NoRedis

FairNext ==
    \/ \E t \in Tasks, k \in Keys : ReserveCall(t, k)
    \/ \E t \in Tasks : ReserveResume(t)
    \/ \E k \in Keys : LockAcquire(k)
    \/ \E l \in LockIds : LockRelease(l)
    \/ Tick
    \/ ClearCall
    \/ \E t \in Tasks : ReserveCancel(t)
    \/ \E t \in Tasks : ReserveCancelled(t)

\* the event loop runs every task that is ready: a woken waiter and a
\* cancelled one; whoever holds a lock outside the backend lets go of it
Fairness ==
    /\ \A t \in Tasks : WF_vars(ReserveResume(t))
    /\ \A t \in Tasks : WF_vars(ReserveCancelled(t))
    /\ \A l \in LockIds : WF_vars(LockRelease(l))

FairSpec == FairInit /\ [][FairNext]_vars /\ Fairness

----------------------------------------------------------------------------
(* Properties *)

\* the admission time of one completed reserve: now + delay
Adm(e) == e.now + e.delay

\* calls i+1..j of key k all read a stored TAT: no eviction among them
NoColdBetween(k, i, j) == \A n \in (i + 1)..j : hist[k][n].read # None

\* C1: without idle eviction, consecutive admissions on one key are at least
\* interval - tau apart.
C1_SerialPacing ==
    idle_ttl = None =>
        \A k \in Keys : \A i \in 1..(Len(hist[k]) - 1) :
            Adm(hist[k][i + 1]) - Adm(hist[k][i]) >= Interval(params) - Tau(params)

\* a second call on a key was delayed by the first, without idle eviction
C1_Witness ==
    /\ idle_ttl = None
    /\ \E k \in Keys :
        /\ Len(hist[k]) >= 2
        /\ hist[k][2].delay > 0
        /\ Adm(hist[k][2]) - Adm(hist[k][1]) = Interval(params) - Tau(params)

\* C2: with idle_ttl configured too, consecutive admissions on one key are at
\* least interval - tau apart (eviction never forgets a TAT still ahead of now).
C2_PacingWithEviction ==
    \A k \in Keys : \A i \in 1..(Len(hist[k]) - 1) :
        Adm(hist[k][i + 1]) - Adm(hist[k][i]) >= Interval(params) - Tau(params)

\* C3: without eviction or clear in between, the i-th and j-th admission of a
\* key are at least (j - i) * interval - tau apart, so fewer than
\* limit + burst admissions fall in a window shorter than period.
C3_BulkPacing ==
    \A k \in Keys : \A i \in 1..Len(hist[k]) : \A j \in (i + 1)..Len(hist[k]) :
        NoColdBetween(k, i, j) =>
            /\ Adm(hist[k][j]) - Adm(hist[k][i])
                    >= (j - i) * Interval(params) - Tau(params)
            /\ Adm(hist[k][j]) - Adm(hist[k][i]) < params.period
                    => j - i + 1 <= params.limit + params.burst - 1

\* three calls in a row on a key with burst > 1, the third delayed to exactly
\* the bound
C3_Witness ==
    \E k \in Keys :
        /\ params.burst >= 2
        /\ Len(hist[k]) >= 3
        /\ NoColdBetween(k, 1, 3)
        /\ Adm(hist[k][3]) - Adm(hist[k][1]) = 2 * Interval(params) - Tau(params)
        /\ hist[k][3].delay > 0

\* the TAT that replaying calls 1..n of key k one after the other leaves
RECURSIVE Replay(_, _)
Replay(k, n) ==
    IF n = 0 THEN None
    ELSE LET e == hist[k][n]
             before == IF e.read = None THEN None ELSE Replay(k, n - 1)
         IN  Some(gcra_step(e.now, before, params).new_tat)

BurstDelay(n, p) == IF n < p.burst THEN 0 ELSE (n - p.burst + 1) * Interval(p)

\* calls i..j of key k are a run at one instant that starts on a cold key
SameInstantRun(k, i, j) ==
    /\ hist[k][i].read = None
    /\ NoColdBetween(k, i, j)
    /\ \A n \in i..j : hist[k][n].now = hist[k][i].now

\* C5: of N calls at the same now on a cold key, the first burst ones get
\* delay 0 and call n >= burst (from 0) gets (n - burst + 1) * interval.
C5_BurstThenPaced ==
    \A k \in Keys : \A i \in 1..Len(hist[k]) : \A j \in i..Len(hist[k]) :
        SameInstantRun(k, i, j) => hist[k][j].delay = BurstDelay(j - i, params)

\* a run with burst > 1 long enough to use up the burst: its last call is
\* delayed
C5_Witness ==
    \E k \in Keys :
        /\ params.burst >= 2
        /\ Len(hist[k]) > params.burst
        /\ SameInstantRun(k, 1, Len(hist[k]))
        /\ hist[k][Len(hist[k])].delay > 0

\* C6: gcra_step never returns a negative delay.
C6_DelayNonNegative == step.done => step.delay >= 0

\* an early arrival: the delay is positive
C6_Witness == step.done /\ step.tat # None /\ step.delay > 0

\* C7: the TAT gcra_step returns is in [now + delay, now + delay + interval + tau].
C7_TatWindow ==
    step.done =>
        /\ step.new_tat >= step.now + step.delay
        /\ step.new_tat <= step.now + step.delay + Interval(step.params) + Tau(step.params)

\* a delayed call with burst > 1: the TAT leads by exactly interval + tau
C7_Witness ==
    /\ step.done
    /\ step.delay > 0
    /\ Tau(step.params) > 0
    /\ step.new_tat = step.now + step.delay + Interval(step.params) + Tau(step.params)

\* the three entries of key k: its TAT, its last_seen and its lock
KeyState(k) == <<Get(tat, k), Get(last_seen, k), Get(locks, k)>>

Absent == <<None, None, None>>

\* the lock stored for key k is held
Held(k) == k \in DOMAIN locks /\ locks[k] \in locked

\* a step of a reserve call on key k: its start, or its resumption after the
\* wait for the lock
ReserveOn(k) ==
    \/ \E t \in Tasks : ReserveCall(t, k)
    \/ \E t \in Tasks : task[t].key = k /\ ReserveResume(t)

\* C8 as stated: reserve calls on K1 leave the three entries of every other
\* key K2 unchanged, with or without idle_ttl.
C8_OtherKeysUntouched ==
    [][\A k1 \in Keys : ReserveOn(k1) =>
            \A k2 \in Keys \ {k1} : KeyState(k2)' = KeyState(k2)]_vars

\* C8 amended: a reserve call on K1 never changes the values stored for another
\* key K2; it removes K2's three entries together, and only in its inline
\* eviction pass, when idle_ttl is set, K2 has been idle for idle_ttl or longer
\* and K2's lock is free.
C8_OtherKeysOnlyEvicted ==
    [][\A k1 \in Keys : ReserveOn(k1) =>
            \A k2 \in Keys \ {k1} :
                \/ KeyState(k2)' = KeyState(k2)
                \/ /\ idle_ttl # None
                   /\ \E t \in Tasks : ReserveCall(t, k1)
                   /\ k2 \in DOMAIN tat
                   /\ k2 \in DOMAIN last_seen
                   /\ clock - last_seen[k2] >= idle_ttl[1]
                   /\ ~Held(k2)
                   /\ KeyState(k2)' = Absent]_vars

\* without a sweeper, the latest reserve on one key evicted another key that
\* had been reserved before
C8_Witness ==
    /\ idle_ttl # None
    /\ sweeper_interval = None
    /\ \E k1 \in Keys : \E k2 \in Keys \ {k1} :
        /\ hist[k1] # <<>>
        /\ hist[k1][Len(hist[k1])].now = pass.now
        /\ hist[k2] # <<>>
        /\ k2 \in DOMAIN pass.removed
        /\ KeyState(k2) = Absent

\* a step that runs an eviction pass when idle_ttl is set
PassStep ==
    \/ \E t \in Tasks, k \in Keys : ReserveCall(t, k)
    \/ \E s \in SweeperIds : SweepRun(s)

\* C9: no eviction pass, inline or by the sweeper, removes a key whose lock is
\* held: the key keeps its three entries; a pass that finds the lock free and
\* the key idle for longer than idle_ttl removes it.
C9_LockedKeyKept ==
    [][PassStep =>
            \A k \in DOMAIN tat :
                /\ Held(k) => KeyState(k)' = KeyState(k)
                /\ ( /\ idle_ttl # None
                     /\ k \in DOMAIN last_seen
                     /\ ~Held(k)
                     /\ clock - last_seen[k] > idle_ttl[1] )
                        => k \in DOMAIN pass'.removed]_vars

\* the latest pass met an expired key with its lock held and left it in place
C9_Witness ==
    \E k \in pass.skipped :
        /\ KeyState(k)[1] # None
        /\ pass.now - last_seen[k] >= idle_ttl[1]

\* the keys with a free lock that have been idle for more than idle_ttl
IdleBeyondTtl ==
    {k \in DOMAIN tat \cap DOMAIN last_seen :
        clock - last_seen[k] > idle_ttl[1] /\ ~Held(k)}

\* the keys with a free lock that have been idle for idle_ttl or longer
IdleFromTtl ==
    {k \in DOMAIN tat \cap DOMAIN last_seen :
        clock - last_seen[k] >= idle_ttl[1] /\ ~Held(k)}

\* a pass removes exactly the keys of E, each from all three dicts, and keeps
\* the others as they are (the key a reserve call is for is written afterwards)
RemovesExactly(E) ==
    /\ DOMAIN pass'.removed = E
    /\ \A kk \in Keys : (\E t \in Tasks : ReserveCall(t, kk)) =>
            \A k \in DOMAIN tat \ {kk} :
                KeyState(k)' = IF k \in E THEN Absent ELSE KeyState(k)
    /\ (\E s \in SweeperIds : SweepRun(s)) =>
            \A k \in DOMAIN tat :
                KeyState(k)' = IF k \in E THEN Absent ELSE KeyState(k)

\* C10 as stated: a pass removes exactly the keys idle for more than idle_ttl
\* whose lock is free; a key idle for exactly idle_ttl is kept.
C10_EvictsBeyondTtl ==
    [][(PassStep /\ idle_ttl # None) => RemovesExactly(IdleBeyondTtl)]_vars

\* C10 amended: a pass removes exactly the keys idle for idle_ttl or longer
\* whose lock is free, each from all three dicts; a key idle for less is kept.
C10_EvictsFromTtl ==
    [][(PassStep /\ idle_ttl # None) => RemovesExactly(IdleFromTtl)]_vars

\* the latest pass removed a key that had been idle for exactly idle_ttl
C10_Witness ==
    /\ idle_ttl # None
    /\ \E k \in DOMAIN pass.removed : pass.now - pass.removed[k] = idle_ttl[1]

----------------------------------------------------------------------------
(* FreqLimit.resource *)

\* the completed read-step-write of the reserve call task t made
Reserved(t) ==
    \E i \in 1..Len(hist[task[t].key]) :
        /\ hist[task[t].key][i].now = task[t].now
        /\ hist[task[t].key][i].delay = task[t].delay

Pacing(t) == task[t].caller = "limiter" /\ task[t].pc \in {"sleeping", "region"}

\* C11: while a caller of resource() sleeps or is in its region the lock of
\* its key is free and no other caller is queued on a lock: the lock is held
\* only inside reserve, so a later reserve on the key returns at once
C11_SleepOutsideLock ==
    \A t \in Tasks :
        Pacing(t) =>
            /\ Reserved(t)
            /\ ~Held(task[t].key)
            /\ \A u \in Tasks : task[u].pc # "waiting"

\* two callers of one key sleep at the same time, the later one scheduled
\* behind the earlier one
C11_Witness ==
    \E t, u \in Tasks :
        /\ task[t].pc = "sleeping" /\ task[u].pc = "sleeping"
        /\ task[t].key = task[u].key
        /\ task[t].wake < task[u].wake

\* C12: a caller is in its region only after its reserve returned and not
\* before now + delay; it sleeps only for a delay > 0, and with no delay it
\* is in the region at the time of its call
C12_RegionAfterDelay ==
    \A t \in Tasks :
        /\ task[t].pc = "sleeping" => task[t].delay > 0 /\ Reserved(t)
        /\ task[t].pc = "region" =>
              /\ Reserved(t)
              /\ task[t].entered >= task[t].now + task[t].delay
              /\ task[t].delay <= 0 => task[t].entered = task[t].now

C12_Witness ==
    \E t \in Tasks :
        /\ task[t].pc = "region"
        /\ task[t].delay > 0
        /\ task[t].entered = task[t].now + task[t].delay

\* C13: a cancellation during the sleep, or an exception in the region,
\* changes neither the TAT nor last_seen of any key
C13_AbandonKeepsTat ==
    [][\A t \in Tasks :
          SleepCancelled(t) \/ RegionError(t) =>
              tat' = tat /\ last_seen' = last_seen]_vars

\* one caller of a key failed in its region, another was cancelled in its
\* sleep, and the key still holds the TAT the last reserve wrote
C13_Witness ==
    \E t, u \in Tasks :
        /\ task[t].outcome = "cancelled" /\ task[u].outcome = "failed"
        /\ task[t].key = task[u].key
        /\ Len(hist[task[t].key]) >= 2
        /\ Get(tat, task[t].key) = Some(hist[task[t].key][Len(hist[task[t].key])].tat)

\* the reserve calls made so far
ReserveCalls == {<<k, i>> \in AllKeys \X (1..MaxCalls) : i <= Len(hist[k])}

\* C17: every resource() call makes one reserve call, with the key "_global"
\* when no key was given and with the given key otherwise, and with the
\* limiter's params, which never change
C17_KeyAndParamsPassed ==
    /\ [](/\ Cardinality(ReserveCalls) = ncalls
          /\ \A t \in Tasks :
                Pacing(t) =>
                    task[t].key = IF task[t].arg = None THEN "_global"
                                  ELSE task[t].arg[1]
          /\ \A c \in ReserveCalls :
                LET e == hist[c[1]][c[2]]
                    r == gcra_step(e.now, e.read, params)
                IN  e.tat = r.new_tat /\ e.delay = r.delay)
    /\ [][params' = params]_vars

C17_Witness ==
    \E t, u \in Tasks :
        /\ Pacing(t) /\ task[t].arg = None /\ task[t].key = "_global"
        /\ Pacing(u) /\ task[u].arg = Some("k1") /\ task[u].key = "k1"
        /\ Len(hist["_global"]) = 1 /\ Len(hist["k1"]) = 1

----------------------------------------------------------------------------
(* InMemoryBackend.clear under concurrent reserve calls *)

\* a step in which a clear() call returns
ClearReturns == ClearResume \/ (ClearCall /\ clr'.pc = "idle")

\* a sweeper task that has started and has not ended
Alive(s) == sw[s].state \in {"sleeping", "cancelling"}

\* C14: when clear() returns, the three dictionaries are empty
C14_ClearLeavesNothing ==
    [][ClearReturns =>
          tat' = EmptyDict /\ last_seen' = EmptyDict /\ locks' = EmptyDict]_vars

\* C15: when clear() returns, the sweeper handle is unset and no sweeper
\* task is alive
C15_ClearEndsSweeper ==
    [][ClearReturns =>
          sweeper_task' = None /\ \A s \in SweeperIds : ~Alive(s)']_vars

\* C16: at most one sweeper task is alive, none without sweeper_interval,
\* and a reserve call starts one only when none is alive
C16_AtMostOneSweeper ==
    /\ Cardinality({s \in SweeperIds : Alive(s)}) <= 1
    /\ sweeper_interval = None => \A s \in SweeperIds : ~Alive(s)

----------------------------------------------------------------------------
(* RedisBackend *)

\* what Redis holds for a key argument: a value with its expiry, or nothing
Slot(key) == Get(redis.db, RedisKey(redis.prefix, key))

\* C18: a reserve with key None is stored under the prefix followed by
\* "None", returns 0 on a cold store and leaves the records of all other
\* keys as they are; a reserve with any other key leaves the record of None
\* as it is
C18_NoneKeyOwnSlot ==
    [][\A key \in RedisKeyArgs :
          RedisReserve(key) =>
              /\ key = PyNone =>
                    /\ redis.db = EmptyDict => redis'.last[1].delay = 0
                    /\ DOMAIN redis'.db \ DOMAIN redis.db \subseteq {Prefix \o NoneText}
                    /\ Prefix \o NoneText \in DOMAIN redis'.db
                    /\ \A other \in RedisKeyArgs \ {PyNone} : Slot(other)' = Slot(other)
              /\ key # PyNone => Slot(PyNone)' = Slot(PyNone)]_vars

\* C19: for every server time, stored TAT, interval and tau the script
\* stores the new_tat and returns the delay that gcra_step computes
C19_ScriptMatchesStep ==
    redis.last # None =>
        LET l == redis.last[1]
            r == gcra_step(l.now, l.read, l.params)
        IN  l.tat = r.new_tat /\ l.delay = r.delay

C19_Witness ==
    /\ redis.last # None
    /\ redis.last[1].read # None
    /\ redis.last[1].params.burst > 1
    /\ redis.last[1].delay > 0

Max(a, b) == IF a >= b THEN a ELSE b

\* C20: the TTL of the record a reserve wrote is the least whole number of
\* seconds not below max(1 s, (new_tat - now) + extra_ttl): at least 1 s, not
\* below the debt new_tat - now, and for a cold key interval + extra_ttl
\* rounded up whatever the burst; the record holds new_tat until that TTL is
\* over, and no record expires before its TAT
C20_TtlCoversDebt ==
    /\ redis.last # None =>
          LET l == redis.last[1]
              raw == (l.tat - l.now) + l.extra_ttl
              ttl == l.ex * TicksPerSecond
              cold == Interval(l.params) + l.extra_ttl
              rec == Slot(l.key)
          IN  /\ l.ex >= 1
              /\ ttl >= raw
              /\ ttl - TicksPerSecond < Max(raw, TicksPerSecond)
              /\ ttl >= l.tat - l.now
              /\ l.read = None =>
                    /\ ttl >= cold
                    /\ ttl - TicksPerSecond < Max(cold, TicksPerSecond)
              /\ IF redis.time < l.now + ttl
                 THEN rec = Some([val |-> l.tat, expire |-> l.now + ttl])
                 ELSE rec = None
    /\ \A k \in DOMAIN redis.db :
          redis.time < redis.db[k].expire /\ redis.db[k].val <= redis.db[k].expire

\* a cold key with burst 2 whose TTL is rounded up to two seconds
C20_Witness ==
    /\ redis.last # None
    /\ redis.last[1].read = None
    /\ redis.last[1].params.burst > 1
    /\ redis.last[1].ex = 2
    /\ redis.last[1].ex * TicksPerSecond > (redis.last[1].tat - redis.last[1].now)
                                               + redis.last[1].extra_ttl
    /\ Slot(redis.last[1].key) # None

----------------------------------------------------------------------------
(* RedisBackend.clear *)

StartsWith(str, q) == Len(str) >= Len(q) /\ SubSeq(str, 1, Len(q)) = q

\* C21: clear() deletes the stored keys that start with the prefix and no
\* other key, whatever the prefix
C21_ClearDeletesPrefixOnly ==
    [][RedisClear =>
          DOMAIN redis'.db = {k \in DOMAIN redis.db : ~StartsWith(k, redis.prefix)}]_vars

----------------------------------------------------------------------------
(* RedisBackend.reserve: the now argument and a failing script *)

\* what a reserve leaves, without the record of the now it was given
Outcome(key, now) == [AfterReserve(key, now) EXCEPT !.last[1].arg_now = 0]

\* C22: from any state of the store and the server clock, reserve with two
\* different now arguments writes the same TAT and TTL and returns the same
\* delay
C22_NowIgnored ==
    \A key \in RedisKeyArgs :
        \A now \in 1..MaxTime : Outcome(key, now) = Outcome(key, 0)

\* a reserve was given a now ahead of the server's time and had to wait
C22_Witness ==
    /\ redis.last # None
    /\ redis.last[1].arg_now > redis.last[1].now
    /\ redis.last[1].read # None
    /\ redis.last[1].delay > 0

----------------------------------------------------------------------------
(* Construction claims *)

NonPositive(x) == x <= 0

\* C24: a construction is rejected exactly when one of its inputs is
\* non-positive (an unset idle_ttl or sweeper_interval is no input), and
\* every accepted FreqLimitParams has interval > 0 and tau >= 0
C24_RejectsNonPositive ==
    made.done =>
        /\ made.class = "FreqLimitParams" =>
              /\ made.raised <=> \E i \in 1..3 : NonPositive(made.args[i])
              /\ ~made.raised => /\ Positive(made.interval[1])
                                 /\ NonNegative(made.tau[1])
        /\ made.class = "InMemoryBackend" =>
              (made.raised <=>
                  \E i \in 1..2 : made.args[i] /= None /\ NonPositive(made.args[i][1]))

\* an accepted params whose interval is half a tick and whose tau is zero
C24_Witness ==
    /\ made.done
    /\ made.class = "FreqLimitParams"
    /\ ~made.raised
    /\ made.args = <<2, 1, 1>>
    /\ made.tau[1].num = 0

----------------------------------------------------------------------------
(* FreqLimit.clear claims *)

BackendState == <<tat, last_seen, locks, locked, waiters, sweeper_task, sw, clr>>

LimiterClearReturned == facade.pc = "idle"

\* C25: FreqLimit.clear() calls the backend's clear once per call when the
\* backend has one and has returned only when that clear has finished; when
\* the backend has none it raises nothing and leaves the backend's state
\* as it was
C25_ClearDelegates ==
    /\ [](facade.has_clear => facade.clears = facade.calls)
    /\ [](LimiterClearReturned => clr.pc = "idle")
    /\ [](~facade.has_clear => facade.clears = 0 /\ facade.raised = 0)
    /\ [][(~facade.has_clear /\ facade'.calls /= facade.calls)
             => UNCHANGED BackendState]_vars

\* a clear through the limiter that had to wait for the sweeper has returned
C25_Witness ==
    /\ facade.has_clear
    /\ facade.clears = 1
    /\ LimiterClearReturned
    /\ sweeper_interval /= None
    /\ \E s \in SweeperIds : SweeperDone(s)

----------------------------------------------------------------------------
(* gcra_step against its reference, and its monotonicity *)

\* the reference step, written from its closed form
ReferenceStep(now, tat_in, p) ==
    LET t == IF tat_in = None THEN now ELSE tat_in[1]
    IN  [new_tat |-> Max(now, t) + Interval(p),
         delay |-> Max(0, t - Tau(p) - now)]

\* C28: gcra_step equals the reference step: with an absent tat taken as
\* now, delay = max(0, tat - tau - now) and new_tat is effective_now +
\* interval when effective_now = now + delay is at or after tat and tat +
\* interval otherwise, which is max(now, tat) + interval; an arrival at or
\* after the TAT gets delay 0 and new_tat = now + interval, and new_tat is
\* never below now + interval
C28_StepEqualsReference ==
    step.done =>
        LET t == IF step.tat = None THEN step.now ELSE step.tat[1]
            ref == ReferenceStep(step.now, step.tat, step.params)
            effective_now == step.now + ref.delay
        IN  /\ step.delay = ref.delay
            /\ step.new_tat = ref.new_tat
            /\ step.new_tat = IF effective_now >= t
                              THEN effective_now + Interval(step.params)
                              ELSE t + Interval(step.params)
            /\ step.now >= t =>
                  /\ step.delay = 0
                  /\ step.new_tat = step.now + Interval(step.params)
            /\ step.new_tat >= step.now + Interval(step.params)

\* an early arrival inside a burst window: delayed, and not re-anchored
C28_Witness ==
    /\ step.done
    /\ step.tat /= None
    /\ step.params.burst > 1
    /\ step.delay > 0
    /\ step.new_tat > step.now + step.delay + Interval(step.params)

\* the script's step on the same input, as new_tat and delay
ScriptStep(now, tat_in, p) ==
    LET r == GCRA_LUA(now, tat_in, Interval(p), Tau(p), 0)
    IN  [new_tat |-> r.tat, delay |-> r.delay]

\* C29: with tat and params fixed a later now gives no smaller new_tat and
\* no larger delay; with now and params fixed a later tat gives no smaller
\* new_tat and no smaller delay; the same holds of the script
C29_StepMonotone ==
    step.done =>
        /\ \A now2 \in step.now..MaxStepTime :
              LET a == gcra_step(now2, step.tat, step.params)
                  s1 == ScriptStep(step.now, step.tat, step.params)
                  s2 == ScriptStep(now2, step.tat, step.params)
              IN  /\ a.new_tat >= step.new_tat
                  /\ a.delay <= step.delay
                  /\ s2.new_tat >= s1.new_tat
                  /\ s2.delay <= s1.delay
        /\ step.tat /= None =>
              \A tat2 \in step.tat[1]..MaxStepTime :
                  LET b == gcra_step(step.now, Some(tat2), step.params)
                      s1 == ScriptStep(step.now, step.tat, step.params)
                      s2 == ScriptStep(step.now, Some(tat2), step.params)
                  IN  /\ b.new_tat >= step.new_tat
                      /\ b.delay >= step.delay
                      /\ s2.new_tat >= s1.new_tat
                      /\ s2.delay >= s1.delay

\* a call whose result differs from that of a later now and of a later tat
C29_Witness ==
    /\ step.done
    /\ step.tat /= None
    /\ step.params.burst > 1
    /\ step.delay > 0
    /\ step.now < MaxStepTime
    /\ step.tat[1] < MaxStepTime
    /\ gcra_step(step.now + 1, step.tat, step.params).delay < step.delay
    /\ gcra_step(step.now, Some(step.tat[1] + 1), step.params).new_tat > step.new_tat

----------------------------------------------------------------------------
(* InMemoryBackend: the three dicts *)

\* a reserve call on key k has been entered and has not returned
InProgress(k) == \E t \in Tasks : task[t].pc = "waiting" /\ task[t].key = k

----------------------------------------------------------------------------
(* Legacy FreqLimit claims *)

\* the tasks in the region of key k
InRegion(k) == {t \in Tasks : legacy.task[t].pc = "region" /\ legacy.task[t].key = k}

\* the tasks past the lock of key k: in the pacing sleep or in the region
PastLock(k) ==
    {t \in Tasks : legacy.task[t].pc \in {"sleeping", "region"} /\ legacy.task[t].key = k}

\* C26: the regions of one key never overlap, the key's lock being held
\* from before the pacing sleep to the end of the region, and two
\* consecutive entries on one key are at least interval apart
C26_RegionsPaced ==
    \A k \in Keys :
        /\ Cardinality(InRegion(k)) <= 1
        /\ Cardinality(PastLock(k)) <= 1
        /\ PastLock(k) /= {} => k \in DOMAIN legacy.locks /\ legacy.locks[k].held
        /\ Len(legacy.entered[k]) = 2 =>
              legacy.entered[k][2] - legacy.entered[k][1] >= legacy.interval

\* no task holds or waits for the lock of key k, or sleeps or runs under it
NoUser(k) ==
    \A t \in Tasks : legacy.task[t].pc = "idle" \/ legacy.task[t].key /= k

\* at least clean_interval has passed since the last entry on key k
AgedSinceEntry(k) ==
    LET e == legacy.entered[k]
    IN  e = <<>> \/ clock - e[Len(e)] >= legacy.clean_interval

\* the step is a pass of the cleaner over the lock table
CleanerPassed ==
    /\ legacy'.clean_task.pc = "sleeping"
    /\ legacy'.clean_task /= legacy.clean_task

\* a key leaves the table only unused and aged, and a key in use keeps its
\* Lock object
RemovedOnlyIdle(k) ==
    /\ k \notin DOMAIN legacy'.locks => NoUser(k) /\ AgedSinceEntry(k)
    /\ ~NoUser(k) =>
          /\ k \in DOMAIN legacy'.locks
          /\ legacy'.locks[k].id = legacy.locks[k].id

\* C27: the cleaner removes a key only when no task holds or waits for its
\* lock and clean_interval has passed since its last entry, a key in use
\* keeps its lock object, and a key whose users have all finished (normally,
\* by error or by cancellation) is removed: by the first pass of the
\* cleaner that finds it unused and aged
C27_CleanerRemovesIdleKeys ==
    [][\A k \in DOMAIN legacy.locks :
          /\ RemovedOnlyIdle(k)
          /\ (CleanerPassed /\ NoUser(k) /\ AgedSinceEntry(k))
                => k \notin DOMAIN legacy'.locks]_vars

----------------------------------------------------------------------------
(* InMemoryBackend.reserve: termination *)

\* the reserve call of task t is suspended at async with lock
Blocked(t) == task[t].pc \in {"waiting", "cancelling"}

\* task t is in the queue of some lock
Queued(t) == \E l \in LockIds : \E i \in 1..Len(waiters[l]) : waiters[l][i] = t

\* C31: under fair scheduling every reserve call returns or ends by its
\* cancellation: a call that has ended holds no lock and stands in no
\* queue, the step that does the read-step-write leaves its lock free, and
\* a waiter is never blocked for ever, whatever cancellations of other
\* waiters, eviction passes and clears happen meanwhile
C31_ReserveTerminates ==
    /\ [](\A t \in Tasks : ~Blocked(t) => ~Queued(t) /\ t \notin woken)
    /\ [][\A t \in Tasks :
            (task[t].pc = "waiting" /\ ~Blocked(t)')
                => task[t].lock \notin locked']_vars
    /\ \A t \in Tasks : Blocked(t) ~> ~Blocked(t)

\* one waiter has ended by its cancellation, the other has waited behind
\* it and returned
C31_Witness ==
    \E t, u \in Tasks, k \in Keys :
        /\ task[t].outcome = "cancelled"
        /\ task[u].pc = "idle" /\ task[u].outcome = "none"
        /\ hist[k] /= <<>>
        /\ hist[k][Len(hist[k])].waited
====
